---- MODULE Spec2Model ----
(***************************************************************************)
(* cliquet BaseResource (src/cliquet/resource.py): the CRUD end-points,    *)
(* the conditional request guards, the conflict translation and the        *)
(* cursor pagination, over the storage backend contract.                   *)
(*                                                                         *)
(* Records are functions from field names to integers.  Python's None is   *)
(* the integer None (-1); every stored value is >= 0.                      *)
(***************************************************************************)
EXTENDS Integers, Sequences, FiniteSets, TLC

VARIABLES store, ts, settings, req, chain, fin, fout

vars == <<store, ts, settings, req, chain, fin, fout>>

-----------------------------------------------------------------------------
(* Bounds *)

MaxId == 2
MaxVal == 1
MaxTs == 3
MaxSortLen == 2
MaxPageRecords == 3
MaxLimit == 2
MaxChurn == 2

(* Python's None, and an absent header or parameter *)
None == -1

Ids == 1..MaxId
Vals == 0..MaxVal
Stamps == 1..MaxTs

(* The writes of a behaviour are bounded: the collection timestamp stops   *)
(* at TsCap.                                                               *)
TsCap == MaxTs + MaxPageRecords + MaxChurn

-----------------------------------------------------------------------------
(* The resource's schema: ResourceSchema plus two declared fields, "a"     *)
(* (plain) and "u" (declared unique).                                      *)

id_field == "id"
modified_field == "last_modified"
deleted_field == "deleted"

known_fields == {"id", "last_modified", "a", "u"}
readonly_fields == {"id", "last_modified"}
unique_fields == {"id", "last_modified", "u"}

(* The schema that declares no field read-only *)
nothing_readonly(field) == FALSE

is_readonly(field) == field \in readonly_fields

\* dict.get(field, default) and dict.get(field)
GetOr(record, field, default) ==
    IF field \in DOMAIN record THEN record[field] ELSE default

Get(record, field) == GetOr(record, field, None)

\* record.copy() followed by update with the changes
Updated(record, changes) ==
    [f \in DOMAIN record \cup DOMAIN changes |->
        IF f \in DOMAIN changes THEN changes[f] ELSE record[f]]

EmptyDict == [f \in {} |-> 0]

-----------------------------------------------------------------------------
(* cliquet.storage.Filter, Sort and COMPARISON *)

Filter(field, value, operator) ==
    [field |-> field, value |-> value, operator |-> operator]

Sort(field, direction) == [field |-> field, direction |-> direction]

(* One filter on one record: MIN/MAX inclusive, LT/GT exclusive, NOT is    *)
(* inequality.                                                             *)
MatchFilter(record, f) ==
    LET v == Get(record, f.field) IN
    CASE f.operator = "EQ"  -> v = f.value
      [] f.operator = "NOT" -> v # f.value
      [] f.operator = "LT"  -> v < f.value
      [] f.operator = "GT"  -> v > f.value
      [] f.operator = "MIN" -> v >= f.value
      [] f.operator = "MAX" -> v <= f.value

(* Filters combine by AND *)
MatchAll(record, filters) ==
    \A i \in 1..Len(filters) : MatchFilter(record, filters[i])

(* Pagination rules combine by OR; no rule at all is no restriction *)
MatchRules(record, rules) ==
    \/ Len(rules) = 0
    \/ \E i \in 1..Len(rules) : MatchAll(record, rules[i])

-----------------------------------------------------------------------------
(* The storage backend's record set.  store[i] is the record stored under  *)
(* identifier i: a live record, a tombstone, or NoRecord.                  *)

NoRecord == EmptyDict

LiveRecord(i, a, u, t) ==
    [f \in {"id", "last_modified", "a", "u"} |->
        CASE f = "id" -> i
          [] f = "last_modified" -> t
          [] f = "a" -> a
          [] f = "u" -> u]

Tombstone(i, t) ==
    [f \in {"id", "last_modified", "deleted"} |->
        CASE f = "id" -> i
          [] f = "last_modified" -> t
          [] f = "deleted" -> 1]

IsLive(record) == record # NoRecord /\ deleted_field \notin DOMAIN record

IsTombstone(record) == record # NoRecord /\ deleted_field \in DOMAIN record

LiveRecords(st) == {st[i] : i \in {j \in DOMAIN st : IsLive(st[j])}}

AllRecords(st) == {st[i] : i \in {j \in DOMAIN st : st[j] # NoRecord}}

(* Lexicographic order of a sort sequence: r1 sorts strictly before r2 *)
RECURSIVE SortsBefore(_, _, _)
SortsBefore(r1, r2, sorting) ==
    IF Len(sorting) = 0 THEN FALSE
    ELSE LET s == Head(sorting)
             v1 == Get(r1, s.field)
             v2 == Get(r2, s.field)
         IN IF v1 = v2 THEN SortsBefore(r1, r2, Tail(sorting))
            ELSE IF s.direction = -1 THEN v1 > v2 ELSE v1 < v2

(* The records of a set in sort order *)
apply_sorting(records, sorting) ==
    [i \in 1..Cardinality(records) |->
        CHOOSE r \in records :
            Cardinality({q \in records : SortsBefore(q, r, sorting)}) = i - 1]

FirstN(seq, n) == SubSeq(seq, 1, IF n < Len(seq) THEN n ELSE Len(seq))

(* get_all: the filtered records that match one pagination rule, sorted    *)
(* and cut at the limit, with the count of the records matching the        *)
(* filters.                                                                *)
get_all(st, filters, sorting, pagination_rules, limit, include_deleted) ==
    LET pool == IF include_deleted THEN AllRecords(st) ELSE LiveRecords(st)
        filtered == {r \in pool : MatchAll(r, filters)}
        paginated == {r \in filtered : MatchRules(r, pagination_rules)}
        sorted == apply_sorting(paginated, sorting)
    IN [records |-> IF limit # None /\ limit # 0
                    THEN FirstN(sorted, limit) ELSE sorted,
        total_records |-> Cardinality(filtered)]

-----------------------------------------------------------------------------
(* Pagination token and pagination rules *)

(* utils.encode_token / utils.decode_token: the JSON object of the token,  *)
(* as the sequence of its (field, value) members.                          *)
encode_token(token) ==
    LET fields == DOMAIN token
        order == CHOOSE seq \in [1..Cardinality(fields) -> fields] :
                    \A i, j \in DOMAIN seq : i # j => seq[i] # seq[j]
    IN [i \in DOMAIN order |-> <<order[i], token[order[i]]>>]

decode_token(text) ==
    [f \in {text[i][1] : i \in DOMAIN text} |->
        LET i == CHOOSE j \in DOMAIN text : text[j][1] = f IN text[i][2]]

_build_pagination_token(sorting, last_record) ==
    encode_token([f \in {sorting[i].field : i \in DOMAIN sorting} |->
                    last_record[f]])

(* The rules with the equality pins left out *)
RECURSIVE RulesWithoutPins(_, _, _)
RulesWithoutPins(sorting, last_record, rules) ==
    LET next_sorting == SubSeq(sorting, 1, Len(sorting) - 1)
        last == sorting[Len(sorting)]
        bound == Filter(last.field, Get(last_record, last.field),
                        IF last.direction = -1 THEN "LT" ELSE "GT")
        rules2 == Append(rules, <<bound>>)
    IN IF Len(next_sorting) = 0 THEN rules2
       ELSE RulesWithoutPins(next_sorting, last_record, rules2)

(* The rules with every bound taken as ascending *)
RECURSIVE RulesAlwaysGreater(_, _, _)
RulesAlwaysGreater(sorting, last_record, rules) ==
    LET next_sorting == SubSeq(sorting, 1, Len(sorting) - 1)
        pins == [i \in 1..Len(next_sorting) |->
                    Filter(next_sorting[i].field,
                           Get(last_record, next_sorting[i].field), "EQ")]
        last == sorting[Len(sorting)]
        bound == Filter(last.field, Get(last_record, last.field), "GT")
        rules2 == Append(rules, Append(pins, bound))
    IN IF Len(next_sorting) = 0 THEN rules2
       ELSE RulesAlwaysGreater(next_sorting, last_record, rules2)

RECURSIVE _build_pagination_rules(_, _, _)
_build_pagination_rules(sorting, last_record, rules) ==
    LET next_sorting == SubSeq(sorting, 1, Len(sorting) - 1)
        pins == [i \in 1..Len(next_sorting) |->
                    Filter(next_sorting[i].field,
                           Get(last_record, next_sorting[i].field), "EQ")]
        last == sorting[Len(sorting)]
        bound == Filter(last.field, Get(last_record, last.field),
                        IF last.direction = -1 THEN "LT" ELSE "GT")
        rules2 == Append(rules, Append(pins, bound))
    IN IF Len(next_sorting) = 0 THEN rules2
       ELSE _build_pagination_rules(next_sorting, last_record, rules2)

-----------------------------------------------------------------------------
(* Query string.  A parameter name is held as its keyword prefix (one of   *)
(* min, max, not, lt, gt followed by "_", or none) and the rest of the     *)
(* name; a sort item as its sign ("-", "+" or none) and the rest.          *)

Keywords == {"min", "max", "not", "lt", "gt"}

Param(prefix, name, value) == [prefix |-> prefix, name |-> name, value |-> value]

SortItem(order, name) == [order |-> order, name |-> name]

(* request.GET.get('_sort', '').split(',') of an absent or empty _sort *)
NoSort == <<SortItem("", "")>>

NoToken == <<>>

Query(params, sort, limit, token) ==
    [params |-> params, sort |-> sort, limit |-> limit, token |-> token]

(* The name of a parameter as it is written in the query string *)
ParamName(param) ==
    IF param.prefix = "" THEN param.name
    ELSE param.prefix \o "_" \o param.name

(* param.startswith('_') *)
StartsWithUnderscore(param) ==
    param.prefix = "" /\ param.name \in {"_since", "_to", "_foo"}

(* The exclusive keywords taken as the inclusive ones *)
OperatorInclusive(keyword) ==
    CASE keyword = "min" -> "MIN"
      [] keyword = "max" -> "MAX"
      [] keyword = "not" -> "NOT"
      [] keyword = "lt" -> "MAX"
      [] keyword = "gt" -> "MIN"

(* COMPARISON.<KEYWORD> *)
OperatorOf(keyword) ==
    CASE keyword = "min" -> "MIN"
      [] keyword = "max" -> "MAX"
      [] keyword = "not" -> "NOT"
      [] keyword = "lt" -> "LT"
      [] keyword = "gt" -> "GT"

(* utils.native_value: the text of a value coerced to the most specific    *)
(* native type it resembles.  The value of a boolean is the integer it     *)
(* equals in Python (True == 1, False == 0).                               *)
Digits == <<"0", "1", "2", "3", "4", "5", "6", "7", "8", "9">>

(* '%s' % n: the text a client sends for the integer n *)
Str(n) == Digits[n + 1]

IsDigit(text) == \E n \in DOMAIN Digits : Digits[n] = text

Native(type, value) == [type |-> type, value |-> value]

native_value(text) ==
    CASE IsDigit(text) ->
            Native("int", (CHOOSE n \in DOMAIN Digits : Digits[n] = text) - 1)
      [] text = "true" -> Native("bool", 1)
      [] text = "false" -> Native("bool", 0)
      [] text = "null" -> Native("null", None)
      [] text = "1.5" -> Native("float", text)
      [] OTHER -> Native("str", text)

(* isinstance(value, six.integer_types): bool is a subclass of int *)
IsIntegerType(value) == value.type \in {"int", "bool"}

Invalid(name) == [ok |-> FALSE, error |-> name]

RECURSIVE _extract_filters(_, _)
_extract_filters(params, filters) ==
    IF Len(params) = 0 THEN [ok |-> TRUE, filters |-> filters]
    ELSE LET param == Head(params)
             rest == Tail(params)
             value == native_value(param.value)
         IN IF StartsWithUnderscore(param) /\ ParamName(param) \notin {"_since", "_to"}
            THEN _extract_filters(rest, filters)
            ELSE IF ParamName(param) \in {"_since", "_to"}
            THEN IF ~ IsIntegerType(value)
                 THEN Invalid(ParamName(param))
                 ELSE _extract_filters(rest,
                         Append(filters,
                                Filter(modified_field, value.value,
                                       IF ParamName(param) = "_since"
                                       THEN "GT" ELSE "LT")))
            ELSE LET m == param.prefix \in Keywords /\ param.name # ""
                     operator == IF m THEN OperatorOf(param.prefix) ELSE "EQ"
                     field == IF m THEN param.name ELSE ParamName(param)
                 IN IF field \notin known_fields
                    THEN Invalid("filter")
                    ELSE _extract_filters(rest,
                            Append(filters, Filter(field, value.value, operator)))

RECURSIVE SortingOf(_)
SortingOf(specified) ==
    IF Len(specified) = 0 THEN <<>>
    ELSE LET item == Head(specified)
         IN IF item.name = "" THEN SortingOf(Tail(specified))
            ELSE <<Sort(item.name, IF item.order = "-" THEN -1 ELSE 1)>>
                    \o SortingOf(Tail(specified))

(* The extractor without the final tie-breaker *)
_extract_sorting_as_requested(specified) ==
    LET unknown == \E i \in DOMAIN specified :
                      /\ specified[i].name # ""
                      /\ specified[i].name \notin known_fields
    IN IF unknown THEN Invalid("sort")
       ELSE [ok |-> TRUE, sorting |-> SortingOf(specified)]

_extract_sorting(specified) ==
    LET modified_field_used ==
            \E i \in DOMAIN specified :
                specified[i] = SortItem("", modified_field)
        unknown == \E i \in DOMAIN specified :
                      /\ specified[i].name # ""
                      /\ specified[i].name \notin known_fields
        sorting == SortingOf(specified)
    IN IF unknown THEN Invalid("sort")
       ELSE [ok |-> TRUE,
             sorting |-> IF modified_field_used THEN sorting
                         ELSE Append(sorting, Sort(modified_field, -1))]

(* The token of the request left unread *)
RulesFromTokenIgnored(GET, paginate_by, sorting) ==
    [filters |-> <<>>,
     limit |-> IF GET.limit # None THEN GET.limit ELSE paginate_by]

_extract_pagination_rules_from_token(GET, paginate_by, sorting) ==
    LET limit == IF GET.limit # None THEN GET.limit ELSE paginate_by
        token == GET.token
    IN [filters |-> IF token # NoToken
                    THEN _build_pagination_rules(sorting, decode_token(token), <<>>)
                    ELSE <<>>,
        limit |-> limit]

_next_page_url(GET, sorting, limit, last_record) ==
    [GET EXCEPT !.limit = limit,
                !.token = _build_pagination_token(sorting, last_record)]

-----------------------------------------------------------------------------
(* Storage backend contract *)

collection_timestamp == ts

(* The unique-field clashes of a record to be stored under record_id:      *)
(* UnicityError(field, existing record)                                   *)
UnicityErrors(st, record, record_id) ==
    {e \in unique_fields \X LiveRecords(st) :
        /\ e[1] \in DOMAIN record
        /\ e[2][id_field] # record_id
        /\ e[2][e[1]] = record[e[1]]}

(* The record as the backend stores it under record_id at timestamp t *)
Stored(record, record_id, t) ==
    Updated(record, [f \in {"id", "last_modified"} |->
                        IF f = "id" THEN record_id ELSE t])

FreeIds(st) == {i \in DOMAIN st : st[i] = NoRecord}

(* delete_all: the tombstones of the live records matching the filters,    *)
(* each with a timestamp of its own, in identifier order                   *)
Doomed(st, filters) ==
    {i \in DOMAIN st : IsLive(st[i]) /\ MatchAll(st[i], filters)}

Rank(i, S) == Cardinality({j \in S : j <= i})

delete_all(st, filters, t) ==
    [i \in DOMAIN st |->
        IF i \in Doomed(st, filters)
        THEN Tombstone(i, t + Rank(i, Doomed(st, filters)))
        ELSE st[i]]

-----------------------------------------------------------------------------
(* A request and its response *)

Procs == {1, 2}

NoLink == <<>>

IdleRequest ==
    [op |-> "idle", pc |-> "idle", id |-> None,
     since |-> None, unless |-> None, body |-> EmptyDict,
     GET |-> Query(<<>>, NoSort, None, NoToken),
     timestamp |-> None, record |-> NoRecord, updated |-> NoRecord,
     status |-> 0, last_modified |-> None, result |-> <<>>,
     error |-> "", existing |-> NoRecord, next_page |-> NoLink,
     total_records |-> None, include_deleted |-> FALSE, calls |-> 0,
     pre |-> [store |-> <<>>, ts |-> None]]

(* BaseResource.__init__ *)
NewRequest(op, id, since, unless, body, GET) ==
    [IdleRequest EXCEPT !.op = op, !.pc = "start", !.id = id,
                        !.since = since, !.unless = unless,
                        !.body = body, !.GET = GET,
                        !.timestamp = collection_timestamp,
                        !.pre = [store |-> store, ts |-> ts]]

(* The header carrying the fetched record's timestamp instead *)
TimestampOfRecord(r) ==
    IF r.record # NoRecord THEN r.record[modified_field] ELSE r.timestamp

(* self.timestamp *)
TimestampOfRequest(r) == r.timestamp

add_timestamp_header(r) == [r EXCEPT !.last_modified = TimestampOfRequest(r)]

(* An error response is a response object of its own *)
Raise(r, status, error) ==
    [r EXCEPT !.pc = "done", !.status = status, !.error = error,
              !.last_modified = None, !.result = <<>>, !.next_page = NoLink]

Return(r, status, result) ==
    [r EXCEPT !.pc = "done", !.status = status, !.result = result]

NotModifiedWhenStrict(current_timestamp, modified_since) ==
    current_timestamp < modified_since

NotModifiedWhen(current_timestamp, modified_since) ==
    current_timestamp <= modified_since

(* raise_304_if_not_modified: TRUE when it raises *)
raise_304_if_not_modified(r, record, current) ==
    /\ r.since # None
    /\ NotModifiedWhen(IF record # NoRecord THEN record[modified_field]
                       ELSE current, r.since)

(* The precondition that tolerates one later write *)
ModifiedWhenLater(current_timestamp, unmodified_since) ==
    current_timestamp > unmodified_since + 1

ModifiedWhen(current_timestamp, unmodified_since) ==
    current_timestamp > unmodified_since

(* raise_412_if_modified: TRUE when it raises *)
raise_412_if_modified(r, record, current) ==
    /\ r.unless # None
    /\ ModifiedWhen(IF record # NoRecord THEN record[modified_field]
                    ELSE current, r.unless)

NotModified(r) == add_timestamp_header(Raise(r, 304, ""))

PreconditionFailed(r) ==
    add_timestamp_header(Raise(r, 412, "Resource was modified meanwhile"))

(* response.existing set to the existing identifier instead *)
ConflictExistingId(exception) ==
    [f \in {id_field} |-> exception[2][id_field]]

(* response.existing = exception.record *)
ConflictExisting(exception) == exception[2]

(* raise_conflict *)
raise_conflict(r, exception) ==
    [Raise(r, 409, exception[1]) EXCEPT
        !.existing = ConflictExisting(exception)]

(* merge_fields: the read-only fields the changes would modify *)
ReadonlyChanged(record, changes) ==
    {f \in DOMAIN changes :
        is_readonly(f) /\ GetOr(record, f, changes[f]) # changes[f]}

merge_fields(record, changes) == Updated(record, changes)

NeverUnchanged(record, updated, changes) == FALSE

(* patch: not any([record.get(k) != updated.get(k) for k in changes]) *)
nothing_changed(record, updated, changes) ==
    ~ \E k \in DOMAIN changes : Get(record, k) # Get(updated, k)

-----------------------------------------------------------------------------
(* The end-points.  A request is built (Begin), then takes one step per    *)
(* storage call: the collection timestamp reads of the guards, the fetch   *)
(* of the record, the storage call of the operation.                       *)

Running(p, op, pc) == req[p].op = op /\ req[p].pc = pc

Begin(p, r) ==
    /\ req[p].pc = "idle"
    /\ req' = [req EXCEPT ![p] = r]
    /\ UNCHANGED <<store, ts, settings>>

(* The answer is sent; the resource object of the request is dropped *)
Close(p) ==
    /\ req[p].pc = "done"
    /\ req' = [req EXCEPT ![p] = IdleRequest]
    /\ UNCHANGED <<store, ts, settings>>

Reply(p, r) ==
    /\ req' = [req EXCEPT ![p] = r]
    /\ UNCHANGED <<store, ts, settings>>

AfterStart(r, guards304) ==
    [r EXCEPT !.pc = IF guards304 /\ r.since # None THEN "g304"
                     ELSE IF r.unless # None THEN "g412" ELSE "call"]

collection_get_start(p, since, unless, GET) ==
    Begin(p, AfterStart(add_timestamp_header(
            NewRequest("collection_get", None, since, unless, EmptyDict, GET)),
            TRUE))

collection_post_start(p, unless, body) ==
    Begin(p, AfterStart(
            NewRequest("collection_post", None, None, unless, body,
                       IdleRequest.GET), FALSE))

(* The bulk-delete that does not read the setting *)
collection_delete_start_unchecked(p, unless, GET) ==
    Begin(p, AfterStart(
            NewRequest("collection_delete", None, None, unless, EmptyDict, GET),
            FALSE))

collection_delete_start(p, unless, GET) ==
    LET r == NewRequest("collection_delete", None, None, unless, EmptyDict, GET)
    IN Begin(p, IF ~ settings.delete_collection_enabled
                THEN Raise(r, 405, "") ELSE AfterStart(r, FALSE))

get_start(p, id, since, unless) ==
    Begin(p, [add_timestamp_header(
                NewRequest("get", id, since, unless, EmptyDict, IdleRequest.GET))
              EXCEPT !.pc = "fetch"])

record_start(p, op, id, unless, body) ==
    Begin(p, [NewRequest(op, id, None, unless, body, IdleRequest.GET)
              EXCEPT !.pc = "fetch"])

(* collection_get: raise_304_if_not_modified() *)
collection_304(p) ==
    /\ req[p].pc = "g304"
    /\ LET r == req[p] IN
       Reply(p, IF raise_304_if_not_modified(r, NoRecord, collection_timestamp)
                THEN NotModified(r)
                ELSE [r EXCEPT !.pc = IF r.unless # None THEN "g412" ELSE "call"])

(* The guard of collection_post run after the create *)
collection_412_after_create(p) ==
    /\ req[p].pc = "g412"
    /\ LET r == req[p] IN
       IF r.op = "collection_post"
       THEN /\ ts < TsCap
            /\ \E i \in FreeIds(store) :
                 /\ store' = [store EXCEPT ![i] = Stored(r.body, i, ts + 1)]
                 /\ ts' = ts + 1
                 /\ req' = [req EXCEPT ![p] =
                        IF raise_412_if_modified(r, NoRecord, ts + 1)
                        THEN PreconditionFailed([r EXCEPT !.calls = @ + 1])
                        ELSE Return([r EXCEPT !.calls = @ + 1], 201, <<store'[i]>>)]
                 /\ UNCHANGED settings
       ELSE Reply(p, IF raise_412_if_modified(r, NoRecord, collection_timestamp)
                     THEN PreconditionFailed(r)
                     ELSE [r EXCEPT !.pc = "call"])

(* collection_get, collection_post, collection_delete:                     *)
(* raise_412_if_modified()                                                 *)
collection_412(p) ==
    /\ req[p].pc = "g412"
    /\ LET r == req[p] IN
       Reply(p, IF raise_412_if_modified(r, NoRecord, collection_timestamp)
                THEN PreconditionFailed(r)
                ELSE [r EXCEPT !.pc = "call"])

(* Tombstones asked for only by the _since and _to windows *)
IncludeDeletedForWindow(filters) ==
    \E i \in DOMAIN filters :
        filters[i].field = modified_field /\ filters[i].operator \in {"GT", "LT"}

(* self.modified_field in [f[0] for f in filters] *)
IncludeDeleted(filters) ==
    \E i \in DOMAIN filters : filters[i].field = modified_field

HasNextPage(limit, records, total_records) ==
    limit # None /\ limit # 0 /\ Len(records) = limit /\ total_records > limit

(* The list that reads the collection timestamp after get_all returned:    *)
(* the records are those of the moment the request was built, the header   *)
(* is the collection timestamp of the moment of the answer                 *)
collection_get_call_timestamp_after(p) ==
    /\ Running(p, "collection_get", "call")
    /\ LET r == req[p]
           f == _extract_filters(r.GET.params, <<>>)
           s == _extract_sorting(r.GET.sort)
       IN Reply(p,
            IF ~ f.ok THEN Raise(r, 400, f.error)
            ELSE IF ~ s.ok THEN Raise(r, 400, s.error)
            ELSE LET pg == _extract_pagination_rules_from_token(
                              r.GET, settings.paginate_by, s.sorting)
                     include_deleted == IncludeDeleted(f.filters)
                     got == get_all(r.pre.store, f.filters, s.sorting,
                                    pg.filters, pg.limit, include_deleted)
                 IN [Return(r, 200, got.records) EXCEPT
                        !.total_records = got.total_records,
                        !.include_deleted = include_deleted,
                        !.last_modified = collection_timestamp])

collection_get_call(p) ==
    /\ Running(p, "collection_get", "call")
    /\ LET r == req[p]
           f == _extract_filters(r.GET.params, <<>>)
           s == _extract_sorting(r.GET.sort)
       IN Reply(p,
            IF ~ f.ok THEN Raise(r, 400, f.error)
            ELSE IF ~ s.ok THEN Raise(r, 400, s.error)
            ELSE LET pg == _extract_pagination_rules_from_token(
                              r.GET, settings.paginate_by, s.sorting)
                     include_deleted == IncludeDeleted(f.filters)
                     got == get_all(store, f.filters, s.sorting, pg.filters,
                                    pg.limit, include_deleted)
                 IN [Return(r, 200, got.records) EXCEPT
                        !.total_records = got.total_records,
                        !.include_deleted = include_deleted,
                        !.next_page =
                            IF HasNextPage(pg.limit, got.records, got.total_records)
                            THEN <<_next_page_url(r.GET, s.sorting, pg.limit,
                                        got.records[Len(got.records)])>>
                            ELSE NoLink])

collection_post_call(p) ==
    /\ Running(p, "collection_post", "call")
    /\ LET r == [req[p] EXCEPT !.calls = @ + 1]
           new_record == r.body
       IN \/ \E e \in UnicityErrors(store, new_record, None) :
                Reply(p, raise_conflict(r, e))
          \/ /\ UnicityErrors(store, new_record, None) = {}
             /\ ts < TsCap
             /\ \E i \in FreeIds(store) :
                  /\ store' = [store EXCEPT ![i] = Stored(new_record, i, ts + 1)]
                  /\ ts' = ts + 1
                  /\ req' = [req EXCEPT ![p] = Return(r, 201, <<store'[i]>>)]
                  /\ UNCHANGED settings

collection_delete_call(p) ==
    /\ Running(p, "collection_delete", "call")
    /\ LET r == req[p]
           f == _extract_filters(r.GET.params, <<>>)
       IN IF ~ f.ok THEN Reply(p, Raise(r, 400, f.error))
          ELSE /\ ts + Cardinality(Doomed(store, f.filters)) <= TsCap
               /\ store' = delete_all(store, f.filters, ts)
               /\ ts' = ts + Cardinality(Doomed(store, f.filters))
               /\ req' = [req EXCEPT ![p] =
                    Return([r EXCEPT !.calls = @ + 1], 200,
                           apply_sorting({store'[i] : i \in Doomed(store, f.filters)},
                                         <<Sort(modified_field, 1)>>))]
               /\ UNCHANGED settings

(* db.get(record_id): the live record, or NoRecord for RecordNotFoundError *)
db_get(st, record_id) ==
    IF record_id \in DOMAIN st /\ IsLive(st[record_id])
    THEN st[record_id] ELSE NoRecord

(* db.update(record_id, record), shared by put and patch *)
db_update(p, r, record_id, record) ==
    \/ \E e \in UnicityErrors(store, record, record_id) :
          Reply(p, raise_conflict(r, e))
    \/ /\ UnicityErrors(store, record, record_id) = {}
       /\ ts < TsCap
       /\ store' = [store EXCEPT ![record_id] = Stored(record, record_id, ts + 1)]
       /\ ts' = ts + 1
       /\ req' = [req EXCEPT ![p] = Return(r, 200, <<store'[record_id]>>)]
       /\ UNCHANGED settings

get_fetch(p) ==
    /\ Running(p, "get", "fetch")
    /\ LET r == req[p]
           record == db_get(store, r.id)
       IN Reply(p,
            IF record = NoRecord THEN Raise(r, 404, "")
            ELSE IF raise_304_if_not_modified(r, record, None)
            THEN NotModified([r EXCEPT !.record = record])
            ELSE IF raise_412_if_modified(r, record, None)
            THEN PreconditionFailed([r EXCEPT !.record = record])
            ELSE Return([r EXCEPT !.record = record], 200, <<record>>))

(* The replace that does not compare the payload's identifier *)
put_fetch_unchecked(p) ==
    /\ Running(p, "put", "fetch")
    /\ LET r == req[p]
           existing == db_get(store, r.id)
           new_record == IF id_field \in DOMAIN r.body THEN r.body
                         ELSE Updated(r.body, [f \in {id_field} |-> r.id])
       IN Reply(p,
            IF existing # NoRecord /\ raise_412_if_modified(r, existing, None)
            THEN PreconditionFailed([r EXCEPT !.record = existing])
            ELSE [r EXCEPT !.record = existing, !.updated = new_record,
                           !.pc = "call"])

(* The replace that guards an absent record on the collection timestamp *)
put_fetch_guard_always(p) ==
    /\ Running(p, "put", "fetch")
    /\ LET r == req[p]
           existing == db_get(store, r.id)
           record_id == r.id
           new_record == IF id_field \in DOMAIN r.body THEN r.body
                         ELSE Updated(r.body, [f \in {id_field} |-> record_id])
           new_id == new_record[id_field]
       IN Reply(p,
            IF raise_412_if_modified(r, existing, collection_timestamp)
            THEN PreconditionFailed([r EXCEPT !.record = existing])
            ELSE IF new_id # record_id
            THEN Raise([r EXCEPT !.record = existing], 400, id_field)
            ELSE [r EXCEPT !.record = existing, !.updated = new_record,
                           !.pc = "call"])

put_fetch(p) ==
    /\ Running(p, "put", "fetch")
    /\ LET r == req[p]
           existing == db_get(store, r.id)
           record_id == r.id
           new_record == IF id_field \in DOMAIN r.body THEN r.body
                         ELSE Updated(r.body, [f \in {id_field} |-> record_id])
           new_id == new_record[id_field]
       IN Reply(p,
            IF existing # NoRecord /\ raise_412_if_modified(r, existing, None)
            THEN PreconditionFailed([r EXCEPT !.record = existing])
            ELSE IF new_id # record_id
            THEN Raise([r EXCEPT !.record = existing], 400, id_field)
            ELSE [r EXCEPT !.record = existing, !.updated = new_record,
                           !.pc = "call"])

put_call(p) ==
    /\ Running(p, "put", "call")
    /\ LET r == [req[p] EXCEPT !.calls = @ + 1]
       IN db_update(p, r, r.id, r.updated)

(* The read-only check of merge_fields made after the update *)
patch_fetch_update_first(p) ==
    /\ Running(p, "patch", "fetch")
    /\ LET r == req[p]
           record == db_get(store, r.id)
           changes == r.body
           updated == merge_fields(record, changes)
           r1 == [r EXCEPT !.record = record]
       IN IF record # NoRecord /\ ~ raise_412_if_modified(r, record, None)
             /\ ReadonlyChanged(record, changes) # {}
          THEN /\ ts < TsCap
               /\ store' = [store EXCEPT ![r.id] = Stored(updated, r.id, ts + 1)]
               /\ ts' = ts + 1
               /\ req' = [req EXCEPT ![p] =
                      Raise([r1 EXCEPT !.calls = @ + 1], 400,
                            CHOOSE f \in ReadonlyChanged(record, changes) : TRUE)]
               /\ UNCHANGED settings
          ELSE Reply(p,
                IF record = NoRecord THEN Raise(r, 404, "")
                ELSE IF raise_412_if_modified(r, record, None)
                THEN PreconditionFailed(r1)
                ELSE IF nothing_changed(record, updated, changes)
                THEN Return(r1, 200, <<record>>)
                ELSE [r1 EXCEPT !.updated = updated, !.pc = "call"])

patch_fetch(p) ==
    /\ Running(p, "patch", "fetch")
    /\ LET r == req[p]
           record == db_get(store, r.id)
           changes == r.body
           updated == merge_fields(record, changes)
           r1 == [r EXCEPT !.record = record]
       IN Reply(p,
            IF record = NoRecord THEN Raise(r, 404, "")
            ELSE IF raise_412_if_modified(r, record, None)
            THEN PreconditionFailed(r1)
            ELSE IF ReadonlyChanged(record, changes) # {}
            THEN Raise(r1, 400, CHOOSE f \in ReadonlyChanged(record, changes) : TRUE)
            ELSE IF nothing_changed(record, updated, changes)
            THEN Return(r1, 200, <<record>>)
            ELSE [r1 EXCEPT !.updated = updated, !.pc = "call"])

patch_call(p) ==
    /\ Running(p, "patch", "call")
    /\ LET r == [req[p] EXCEPT !.calls = @ + 1]
       IN db_update(p, r, r.record[id_field], r.updated)

(* The delete that runs its guard, on the collection timestamp, before     *)
(* the record is fetched                                                   *)
delete_fetch_guard_first(p) ==
    /\ Running(p, "delete", "fetch")
    /\ LET r == req[p]
           record == db_get(store, r.id)
           r1 == [r EXCEPT !.record = record]
       IN Reply(p,
            IF raise_412_if_modified(r, NoRecord, collection_timestamp)
            THEN PreconditionFailed(r1)
            ELSE IF record = NoRecord THEN Raise(r, 404, "")
            ELSE [r1 EXCEPT !.pc = "call"])

delete_fetch(p) ==
    /\ Running(p, "delete", "fetch")
    /\ LET r == req[p]
           record == db_get(store, r.id)
           r1 == [r EXCEPT !.record = record]
       IN Reply(p,
            IF record = NoRecord THEN Raise(r, 404, "")
            ELSE IF raise_412_if_modified(r, record, None)
            THEN PreconditionFailed(r1)
            ELSE [r1 EXCEPT !.pc = "call"])

(* db.delete(record_id); a RecordNotFoundError here is not handled *)
delete_call(p) ==
    /\ Running(p, "delete", "call")
    /\ LET r == [req[p] EXCEPT !.calls = @ + 1]
           record_id == r.record[id_field]
       IN IF db_get(store, record_id) = NoRecord
          THEN Reply(p, Raise(r, 500, "RecordNotFoundError"))
          ELSE /\ ts < TsCap
               /\ store' = [store EXCEPT ![record_id] = Tombstone(record_id, ts + 1)]
               /\ ts' = ts + 1
               /\ req' = [req EXCEPT ![p] = Return(r, 200, <<store'[record_id]>>)]
               /\ UNCHANGED settings

-----------------------------------------------------------------------------
(* Requests one at a time: a client that sends any request, with any       *)
(* headers, once the previous one is answered.                             *)

Headers == {None} \cup 0..(MaxTs - 1)

Dicts(fields, values) == [fields -> values]

Payloads ==
    {Updated(d, [f \in {"a"} |-> 0]) : d \in Dicts({"u"}, Vals)}

PutPayloads ==
    Payloads \cup
    {Updated(d, [f \in {"id"} |-> i]) : d \in Payloads, i \in Ids}

Changes ==
    Dicts({"u"}, Vals) \cup Dicts({"id"}, Ids) \cup Payloads
        \cup Dicts({"last_modified"}, Stamps)

Queries ==
    {Query(<<>>, NoSort, None, NoToken),
     Query(<<Param("", "u", "0")>>, <<SortItem("-", "u")>>, 1, NoToken),
     Query(<<Param("", "_foo", "0"), Param("min", "zz", "0")>>, NoSort, None, NoToken),
     Query(<<Param("max", "u", "0")>>, <<SortItem("", "zz")>>, None, NoToken),
     Query(<<Param("", "_since", "1")>>, NoSort, None, NoToken),
     Query(<<Param("min", "last_modified", "2")>>, NoSort, None, NoToken)}

NoChain == [on |-> FALSE]

Idle ==
    /\ req = [p \in {1} |-> IdleRequest]
    /\ chain = NoChain
    /\ fin = <<>>
    /\ fout = <<>>

Init ==
    /\ store = [i \in Ids |-> NoRecord]
    /\ ts = 0
    /\ settings \in [delete_collection_enabled : BOOLEAN, paginate_by : {None}]
    /\ Idle

Quiet == UNCHANGED <<chain, fin, fout>>

(* One client: a request is sent once the previous one is answered *)
Next ==
    \/ /\ req[1].pc = "idle"
       /\ \E since \in Headers, unless \in Headers, GET \in Queries :
             collection_get_start(1, since, unless, GET) /\ Quiet
    \/ /\ req[1].pc = "idle"
       /\ \E unless \in Headers, body \in Payloads :
             ts < MaxTs /\ collection_post_start(1, unless, body) /\ Quiet
    \/ /\ req[1].pc = "idle"
       /\ \E unless \in Headers, GET \in Queries :
             ts < MaxTs /\ collection_delete_start(1, unless, GET) /\ Quiet
    \/ /\ req[1].pc = "idle"
       /\ \E id \in Ids, since \in Headers, unless \in Headers :
             get_start(1, id, since, unless) /\ Quiet
    \/ /\ req[1].pc = "idle"
       /\ \E id \in Ids, unless \in Headers, body \in PutPayloads :
             ts < MaxTs /\ record_start(1, "put", id, unless, body) /\ Quiet
    \/ /\ req[1].pc = "idle"
       /\ \E id \in Ids, unless \in Headers, body \in Changes :
             ts < MaxTs /\ record_start(1, "patch", id, unless, body) /\ Quiet
    \/ /\ req[1].pc = "idle"
       /\ \E id \in Ids, unless \in Headers :
             ts < MaxTs /\ record_start(1, "delete", id, unless, EmptyDict) /\ Quiet
    \/ collection_304(1) /\ Quiet
    \/ collection_412(1) /\ Quiet
    \/ collection_get_call(1) /\ Quiet
    \/ collection_post_call(1) /\ Quiet
    \/ collection_delete_call(1) /\ Quiet
    \/ get_fetch(1) /\ Quiet
    \/ put_fetch(1) /\ Quiet
    \/ put_call(1) /\ Quiet
    \/ patch_fetch(1) /\ Quiet
    \/ patch_call(1) /\ Quiet
    \/ delete_fetch(1) /\ Quiet
    \/ delete_call(1) /\ Quiet
    \/ Close(1) /\ Quiet

Spec == Init /\ [][Next]_vars

-----------------------------------------------------------------------------
(* Properties of answered requests, one request at a time.  The request's  *)
(* pre field is the store and the collection timestamp when it was built.  *)

Answered == req[1].pc = "done"

IsRecordOp(r) == r.op \in {"get", "put", "patch", "delete"}

(* The timestamp the guards of an answered request compared against *)
Relevant(r) ==
    IF IsRecordOp(r) THEN r.record[modified_field] ELSE r.pre.ts

(* The request ran its guards: every collection end-point but a disabled   *)
(* bulk-delete, every record end-point that found its record               *)
RanGuards(r) ==
    IF IsRecordOp(r) THEN r.record # NoRecord ELSE r.status # 405

Since304(r) ==
    r.op \in {"get", "collection_get"} /\ r.since # None
        /\ r.since >= Relevant(r)

Unless412(r) == r.unless # None /\ r.unless < Relevant(r)

(* C4 as stated: since >= T yields not-modified, unless-modified < T       *)
(* yields precondition-failed, any other header leaves the operation       *)
(* unaffected.                                                             *)
C4_Original ==
    Answered /\ RanGuards(req[1]) =>
        /\ Since304(req[1]) => req[1].status = 304
        /\ Unless412(req[1]) => req[1].status = 412
        /\ ~ Since304(req[1]) /\ ~ Unless412(req[1])
              => req[1].status \notin {304, 412}

(* C4 amended: since >= T yields not-modified; unless-modified < T yields  *)
(* precondition-failed when the request was not already answered           *)
(* not-modified (get and list run the since check first); any other        *)
(* header leaves the operation unaffected.                                 *)
C4_GuardLaws ==
    Answered /\ RanGuards(req[1]) =>
        /\ Since304(req[1]) => req[1].status = 304
        /\ Unless412(req[1]) /\ ~ Since304(req[1]) => req[1].status = 412
        /\ ~ Since304(req[1]) /\ ~ Unless412(req[1])
              => req[1].status \notin {304, 412}

C4_Witness ==
    /\ Answered
    /\ req[1].op = "get"
    /\ req[1].status = 304
    /\ req[1].since = req[1].record[modified_field]
    /\ req[1].unless # None
    /\ req[1].unless < req[1].since

(* C5: a create, bulk-delete, replace, partial-update or delete that ends  *)
(* precondition-failed has issued no mutating storage call.                *)
C5_GuardBeforeWrite ==
    Answered /\ req[1].status = 412 =>
        /\ req[1].calls = 0
        /\ store = req[1].pre.store
        /\ ts = req[1].pre.ts

C5_Witness ==
    /\ Answered
    /\ req[1].op = "put"
    /\ req[1].status = 412
    /\ req[1].record # NoRecord

(* The guard of a retry of the answered request that sends the attached    *)
(* timestamp as its unless-modified header, against the present store      *)
RetryFails(r) ==
    raise_412_if_modified([r EXCEPT !.unless = r.last_modified],
                          IF IsRecordOp(r) THEN db_get(store, r.id) ELSE NoRecord,
                          collection_timestamp)

(* C6 as stated: the timestamp attached to a not-modified or               *)
(* precondition-failed answer is the record's own modification timestamp   *)
(* for get, replace, partial-update and delete, the collection timestamp   *)
(* for list, create and bulk-delete.                                       *)
C6_Original ==
    Answered /\ req[1].status \in {304, 412} =>
        /\ req[1].last_modified = Relevant(req[1])
        /\ ~ RetryFails(req[1])

(* C6 amended: the attached timestamp is, for every end-point, the         *)
(* collection timestamp read when the request was built; a retry sending   *)
(* it as unless-modified, with no write since then, does not fail the      *)
(* precondition again.                                                     *)
C6_AttachedTimestamp ==
    Answered /\ req[1].status \in {304, 412} =>
        /\ req[1].last_modified = req[1].pre.ts
        /\ ~ RetryFails(req[1])

C6_Witness ==
    /\ Answered
    /\ req[1].op = "patch"
    /\ req[1].status = 412
    /\ req[1].last_modified > req[1].record[modified_field]

(* Every requested field already holds the requested value *)
NoOpChanges(r) ==
    /\ r.record # NoRecord
    /\ \A k \in DOMAIN r.body :
          k \in DOMAIN r.record /\ r.record[k] = r.body[k]

Submitted(r) == IF r.op = "collection_post" THEN r.body ELSE r.updated

SubmittedId(r) == IF r.op = "collection_post" THEN None ELSE r.id

(* C9: a uniqueness violation in create, replace or partial-update ends    *)
(* in the conflict outcome naming the violated field, with the backend's   *)
(* pre-existing record as its existing data, and returns no record.        *)
C9_Conflict ==
    Answered /\ req[1].status = 409 =>
        /\ req[1].op \in {"collection_post", "put", "patch"}
        /\ <<req[1].error, req[1].existing>> \in
              UnicityErrors(req[1].pre.store, Submitted(req[1]),
                            SubmittedId(req[1]))
        /\ req[1].result = <<>>
        /\ store = req[1].pre.store

C9_Witness ==
    /\ Answered
    /\ req[1].status = 409
    /\ req[1].op = "patch"
    /\ req[1].error = "u"
    /\ req[1].existing[id_field] # req[1].id
    /\ IsLive(req[1].existing)

(* C10: a request answered with an error or not-modified leaves the        *)
(* stored records and the collection timestamp as they were, and no        *)
(* request issues more than one mutating storage call.                     *)
C10_ErrorsLeaveNoTrace ==
    /\ req[1].calls <= 1
    /\ Answered /\ req[1].status \in {304, 400, 404, 405, 409, 412} =>
          /\ store = req[1].pre.store
          /\ ts = req[1].pre.ts

C10_Witness ==
    /\ Answered
    /\ req[1].status = 400
    /\ req[1].op = "patch"
    /\ req[1].error = "last_modified"
    /\ ts > 0

(* The unless-modified header of the request was stale when it was built *)
StaleUnless(r) == r.unless # None /\ r.unless < r.pre.ts

(* C11: with the bulk-delete setting disabled, a bulk-delete ends in       *)
(* method-not-allowed whatever its filters and headers, without running    *)
(* the precondition check or the filter extraction, and deletes nothing.   *)
C11_BulkDeleteDisabled ==
    req[1].op = "collection_delete" /\ ~ settings.delete_collection_enabled =>
        /\ Answered
        /\ req[1].status = 405
        /\ req[1].error = ""
        /\ req[1].last_modified = None
        /\ req[1].calls = 0
        /\ store = req[1].pre.store
        /\ ts = req[1].pre.ts

C11_Witness ==
    /\ Answered
    /\ req[1].op = "collection_delete"
    /\ req[1].status = 405
    /\ StaleUnless(req[1])
    /\ ~ _extract_filters(req[1].GET.params, <<>>).ok
    /\ LiveRecords(store) # {}

(* C12: get, partial-update and delete of an identifier with no stored     *)
(* record end in not-found whatever conditional headers are sent, and      *)
(* issue no mutating storage call.                                         *)
C12_NotFound ==
    Answered /\ req[1].op \in {"get", "patch", "delete"}
             /\ db_get(req[1].pre.store, req[1].id) = NoRecord =>
        /\ req[1].status = 404
        /\ req[1].calls = 0
        /\ store = req[1].pre.store
        /\ ts = req[1].pre.ts

C12_Witness ==
    /\ Answered
    /\ req[1].op = "delete"
    /\ req[1].status = 404
    /\ StaleUnless(req[1])
    /\ req[1].pre.store[req[1].id] = NoRecord

(* The guard of a record request fails on the record it addresses *)
GuardFails(r) ==
    LET record == db_get(r.pre.store, r.id)
    IN record # NoRecord /\ r.unless # None
          /\ record[modified_field] > r.unless

C19_PutAbsent ==
    Answered /\ req[1].op = "put"
             /\ db_get(req[1].pre.store, req[1].id) = NoRecord =>
        /\ req[1].status \notin {404, 412}
        /\ IF GetOr(req[1].body, id_field, req[1].id) = req[1].id
           THEN /\ req[1].calls = 1
                /\ req[1].updated =
                      Updated(req[1].body, [f \in {id_field} |-> req[1].id])
                /\ req[1].status \in {200, 409}
           ELSE /\ req[1].calls = 0
                /\ req[1].status = 400

C19_Witness ==
    /\ Answered
    /\ req[1].op = "put"
    /\ req[1].pre.store[req[1].id] = NoRecord
    /\ StaleUnless(req[1])
    /\ req[1].status = 200
    /\ IsLive(store[req[1].id])

(* The read-only fields the changes of a partial-update would modify *)
ReadonlyTouched(r) ==
    LET record == db_get(r.pre.store, r.id)
    IN {f \in DOMAIN r.body \cap readonly_fields :
           f \in DOMAIN record /\ r.body[f] # record[f]}

TargetsModified(params) ==
    \E i \in DOMAIN params :
        \/ params[i].prefix = "" /\ params[i].name \in {"_since", "_to"}
        \/ params[i].prefix \in Keywords \cup {""}
              /\ params[i].name = modified_field

(* C17: a list calls get_all with include_deleted true exactly when one of *)
(* its filters targets the modification timestamp; every other list        *)
(* returns no tombstone.                                                   *)
C17_IncludeDeleted ==
    Answered /\ req[1].op = "collection_get" /\ req[1].status = 200 =>
        /\ req[1].include_deleted = TargetsModified(req[1].GET.params)
        /\ ~ TargetsModified(req[1].GET.params) =>
              \A i \in DOMAIN req[1].result : ~ IsTombstone(req[1].result[i])

C17_Witness ==
    /\ Answered
    /\ req[1].op = "collection_get"
    /\ req[1].status = 200
    /\ req[1].include_deleted
    /\ \A i \in DOMAIN req[1].GET.params :
          req[1].GET.params[i].name \notin {"_since", "_to"}
    /\ \E i \in DOMAIN req[1].result : IsTombstone(req[1].result[i])
    /\ \E i \in DOMAIN req[1].result : IsLive(req[1].result[i])

-----------------------------------------------------------------------------
(* The pagination rules of every sort sequence and last record, applied    *)
(* to every candidate record.                                              *)

SortSeqs ==
    UNION {[1..n -> {Sort(f, d) : f \in {"a", "u", "last_modified"},
                                  d \in {1, -1}}] : n \in 1..MaxSortLen}

RuleRecords == {LiveRecord(1, a, u, t) : a \in Vals, u \in Vals, t \in Stamps}

InitRules ==
    /\ store = [i \in Ids |-> NoRecord]
    /\ ts = 0
    /\ settings = [delete_collection_enabled |-> TRUE, paginate_by |-> None]
    /\ req = [p \in {1} |-> IdleRequest]
    /\ chain = NoChain
    /\ fin \in [sorting : SortSeqs, last : RuleRecords, cand : RuleRecords]
    /\ fout = <<>>

BuildRules ==
    /\ fout = <<>>
    /\ fout' = _build_pagination_rules(
                  fin.sorting,
                  decode_token(_build_pagination_token(fin.sorting, fin.last)),
                  <<>>)
    /\ UNCHANGED <<store, ts, settings, req, chain, fin>>

NextRules == BuildRules

SpecRules == InitRules /\ [][NextRules]_vars

(* C3: for a sort sequence of n pairs the builder returns n rules; the     *)
(* k-th pins the first n-k fields by EQ to the token's values and bounds   *)
(* field n-k+1 by LT (descending) or GT (ascending); a record satisfies    *)
(* at least one rule exactly when it sorts strictly after the token's      *)
(* record in the lexicographic order of the sort sequence.                 *)
C3_RulesSelectStrictlyAfter ==
    fout # <<>> =>
        LET sorting == fin.sorting
            n == Len(sorting)
        IN /\ Len(fout) = n
           /\ \A k \in 1..n :
                /\ Len(fout[k]) = n - k + 1
                /\ \A j \in 1..(n - k) :
                     fout[k][j] = Filter(sorting[j].field,
                                         fin.last[sorting[j].field], "EQ")
                /\ fout[k][n - k + 1] =
                     Filter(sorting[n - k + 1].field,
                            fin.last[sorting[n - k + 1].field],
                            IF sorting[n - k + 1].direction = -1
                            THEN "LT" ELSE "GT")
           /\ (\E k \in 1..n : MatchAll(fin.cand, fout[k]))
                <=> SortsBefore(fin.last, fin.cand, sorting)

C3_Witness ==
    /\ fout # <<>>
    /\ Len(fin.sorting) = 2
    /\ fin.sorting[1].field # fin.sorting[2].field
    /\ fin.sorting[1].direction = -1
    /\ MatchAll(fin.cand, fout[1])
    /\ ~ MatchAll(fin.cand, fout[2])

-----------------------------------------------------------------------------
(* The sort extractor on every _sort value of up to MaxSortLen items, and  *)
(* the order of the extracted sequence on every pair of records.           *)

SortOrders == {"", "+", "-"}

SortNames == {"a", "u", "last_modified", "zz", ""}

SortSpecs ==
    UNION {[1..n -> {SortItem(o, f) : o \in SortOrders, f \in SortNames}] :
              n \in 1..MaxSortLen}

SortRecords == {LiveRecord(1, a, 0, t) : a \in Vals, t \in {1, 2}}

InitSort ==
    /\ store = [i \in Ids |-> NoRecord]
    /\ ts = 0
    /\ settings = [delete_collection_enabled |-> TRUE, paginate_by |-> None]
    /\ req = [p \in {1} |-> IdleRequest]
    /\ chain = NoChain
    /\ fin \in [specified : SortSpecs, r1 : SortRecords, r2 : SortRecords]
    /\ fout = <<>>

ExtractSorting ==
    /\ fout = <<>>
    /\ fout' = _extract_sorting(fin.specified)
    /\ UNCHANGED <<store, ts, settings, req, chain, fin>>

NextSort == ExtractSorting

SpecSort == InitSort /\ [][NextSort]_vars

(* The item names a field: it matches ^([\-+]?)(\w+)$ *)
NamesField(item) == item.name # ""

(* C14: for a sort specification whose fields are all known and do not     *)
(* include the modification timestamp, the extractor returns the requested *)
(* (field, direction) pairs in request order, "-" descending, "+" or no    *)
(* sign ascending, followed by (modification timestamp, descending); under *)
(* that sequence two records with distinct modification timestamps never   *)
(* compare equal.                                                          *)
C14_SortExtractor ==
    (/\ fout # <<>>
     /\ \A i \in DOMAIN fin.specified :
           NamesField(fin.specified[i]) =>
               /\ fin.specified[i].name \in known_fields
               /\ fin.specified[i].name # modified_field) =>
        LET items == SelectSeq(fin.specified, NamesField)
            n == Len(items)
        IN /\ fout.ok
           /\ Len(fout.sorting) = n + 1
           /\ \A i \in 1..n :
                 fout.sorting[i] =
                    Sort(items[i].name, IF items[i].order = "-" THEN -1 ELSE 1)
           /\ fout.sorting[n + 1] = Sort(modified_field, -1)
           /\ fin.r1[modified_field] # fin.r2[modified_field] =>
                 \/ SortsBefore(fin.r1, fin.r2, fout.sorting)
                 \/ SortsBefore(fin.r2, fin.r1, fout.sorting)

C14_Witness ==
    /\ fout # <<>>
    /\ fin.specified = <<SortItem("-", "a"), SortItem("+", "u")>>
    /\ fout.ok
    /\ Len(fout.sorting) = 3
    /\ fin.r1["a"] = fin.r2["a"]
    /\ fin.r1[modified_field] > fin.r2[modified_field]
    /\ SortsBefore(fin.r1, fin.r2, fout.sorting)

(* The items of the specification that name the modification timestamp *)
NamesModified(item) == item.name = modified_field

(* C22 as stated: the tie-breaker is appended only when the modification   *)
(* timestamp is not among the requested sort fields; for a specification   *)
(* that names it, with or without a "+" or "-" sign, the extracted         *)
(* sequence contains that field exactly once, with the requested           *)
(* direction.                                                              *)
C22_TieBreakerOnce ==
    (/\ fout # <<>>
     /\ \A i \in DOMAIN fin.specified :
           NamesField(fin.specified[i]) =>
               fin.specified[i].name \in known_fields
     /\ Len(SelectSeq(fin.specified, NamesModified)) = 1) =>
        LET item == SelectSeq(fin.specified, NamesModified)[1]
        IN /\ fout.ok
           /\ Cardinality({i \in DOMAIN fout.sorting :
                             fout.sorting[i].field = modified_field}) = 1
           /\ \E i \in DOMAIN fout.sorting :
                 fout.sorting[i] =
                    Sort(modified_field, IF item.order = "-" THEN -1 ELSE 1)

-----------------------------------------------------------------------------
(* The filter extractor on every parameter name and value text, alone and  *)
(* after a parameter that is kept, skipped or a window.                    *)

ParamPrefixes == Keywords \cup {"", "foo"}

ParamNames == {"a", "last_modified", "zz", "_since", "_to", "_foo", ""}

ValueTexts == {"2", "1.5", "true", "null", "abc"}

AnyParam ==
    {Param(k, n, v) : k \in ParamPrefixes, n \in ParamNames, v \in ValueTexts}

FirstParams ==
    {Param("min", "a", "1"), Param("", "_foo", "1"), Param("", "_to", "3")}

ParamSeqs ==
    {<<p>> : p \in AnyParam} \cup {<<p, q>> : p \in FirstParams, q \in AnyParam}

InitFilters ==
    /\ store = [i \in Ids |-> NoRecord]
    /\ ts = 0
    /\ settings = [delete_collection_enabled |-> TRUE, paginate_by |-> None]
    /\ req = [p \in {1} |-> IdleRequest]
    /\ chain = NoChain
    /\ fin \in ParamSeqs
    /\ fout = <<>>

ExtractFilters ==
    /\ fout = <<>>
    /\ fout' = _extract_filters(fin, <<>>)
    /\ UNCHANGED <<store, ts, settings, req, chain, fin>>

NextFilters == ExtractFilters

SpecFilters == InitFilters /\ [][NextFilters]_vars

(* The parameter is _since or _to *)
IsWindow(param) == param.prefix = "" /\ param.name \in {"_since", "_to"}

(* The parameter is neither underscore-prefixed nor a window *)
IsOrdinary(param) == ~ StartsWithUnderscore(param)

(* The field and operator a parameter name resolves to *)
Resolved(param) ==
    IF param.prefix \in Keywords /\ param.name # ""
    THEN [field |-> param.name,
          operator |-> CASE param.prefix = "min" -> "MIN"
                         [] param.prefix = "max" -> "MAX"
                         [] param.prefix = "not" -> "NOT"
                         [] param.prefix = "lt" -> "LT"
                         [] param.prefix = "gt" -> "GT"]
    ELSE [field |-> ParamName(param), operator |-> "EQ"]

(* C15: a parameter that is not underscore-prefixed yields a Filter on the *)
(* field after a min_, max_, not_, lt_ or gt_ prefix with that operator,   *)
(* or an EQ Filter on its whole name; a resolved field outside the known   *)
(* fields fails the extraction, which then returns no filters; an          *)
(* underscore-prefixed parameter other than _since and _to yields neither  *)
(* a Filter nor an error.                                                  *)
C15_FilterExtractor ==
    fout # <<>> =>
        LET ordinary == SelectSeq(fin, IsOrdinary)
            unknown == \E i \in DOMAIN ordinary :
                          Resolved(ordinary[i]).field \notin known_fields
        IN /\ unknown => ~ fout.ok /\ "filters" \notin DOMAIN fout
           /\ (~ unknown /\ \A i \in DOMAIN fin : ~ IsWindow(fin[i])) =>
                 /\ fout.ok
                 /\ Len(fout.filters) = Len(ordinary)
                 /\ \A i \in DOMAIN ordinary :
                       /\ fout.filters[i].field = Resolved(ordinary[i]).field
                       /\ fout.filters[i].operator =
                             Resolved(ordinary[i]).operator

C15_Witness ==
    /\ fout # <<>>
    /\ Len(fin) = 2
    /\ fin[1] = Param("", "_foo", "1")
    /\ fin[2].prefix = "lt"
    /\ fin[2].name = "last_modified"
    /\ fout.ok
    /\ Len(fout.filters) = 1
    /\ fout.filters[1].operator = "LT"

(* C16 as stated: a _since or _to value that coerces to an integer yields  *)
(* a GT (_since) or LT (_to) Filter on the modification timestamp; a value *)
(* that coerces to a float, a boolean, null or a string fails with a       *)
(* validation error naming the parameter and yields no Filter.             *)
C16_WindowInteger ==
    fout # <<>> /\ Len(fin) = 1 /\ IsWindow(fin[1]) =>
        IF native_value(fin[1].value).type = "int"
        THEN /\ fout.ok
             /\ fout.filters =
                   <<Filter(modified_field, native_value(fin[1].value).value,
                            IF fin[1].name = "_since" THEN "GT" ELSE "LT")>>
        ELSE /\ ~ fout.ok
             /\ fout.error = fin[1].name
             /\ "filters" \notin DOMAIN fout

-----------------------------------------------------------------------------
(* A client that lists the collection and follows the next-page links.     *)

PageIds == 1..MaxPageRecords

(* Collections of MaxPageRecords records written one after the other *)
PageStores ==
    {[i \in PageIds |-> LiveRecord(i, a[i], i, i)] : a \in [PageIds -> Vals]}

PageSorts ==
    {NoSort,
     <<SortItem("", "a")>>,
     <<SortItem("-", "a")>>,
     <<SortItem("-", "a"), SortItem("+", "u")>>,
     <<SortItem("", "a"), SortItem("", "last_modified")>>,
     <<SortItem("-", "last_modified")>>,
     <<SortItem("+", "u")>>}

PageFilters == {<<>>, <<Param("min", "a", "1")>>}

PageQueries ==
    {Query(f, s, l, NoToken) :
        f \in PageFilters, s \in PageSorts, l \in {None} \cup 1..MaxLimit}

NewChain(query) ==
    [on |-> TRUE, query |-> query, link |-> <<query>>, pages |-> <<>>,
     done |-> FALSE, start |-> <<>>]

InitPages ==
    /\ store \in PageStores
    /\ ts = MaxPageRecords
    /\ settings \in [delete_collection_enabled : {TRUE}, paginate_by : {None, 1}]
    /\ req = [p \in {1} |-> IdleRequest]
    /\ chain \in {NewChain(q) : q \in PageQueries}
    /\ fin = <<>>
    /\ fout = <<>>

(* The client requests the page of the link it holds *)
FollowLink ==
    /\ chain.link # NoLink
    /\ Len(chain.pages) <= Cardinality(DOMAIN store)
    /\ collection_get_start(1, None, None, chain.link[1])
    /\ chain' = [chain EXCEPT !.link = NoLink,
                              !.start = IF Len(chain.pages) = 0
                                        THEN store ELSE @]
    /\ UNCHANGED <<fin, fout>>

(* The page is answered; the client keeps its records and its link *)
PageAnswered ==
    /\ collection_get_call(1)
    /\ chain' = [chain EXCEPT !.pages = Append(@, req'[1].result),
                              !.link = req'[1].next_page,
                              !.done = (req'[1].next_page = NoLink)]
    /\ UNCHANGED <<fin, fout>>

NextPages ==
    \/ FollowLink
    \/ PageAnswered
    \/ Close(1) /\ UNCHANGED <<chain, fin, fout>>

SpecPages == InitPages /\ [][NextPages]_vars

RECURSIVE Flatten(_)
Flatten(pages) ==
    IF Len(pages) = 0 THEN <<>> ELSE Head(pages) \o Flatten(Tail(pages))

(* The filters, the sort sequence and the limit of the chain's query *)
ChainFilters == _extract_filters(chain.query.params, <<>>).filters

ChainSorting == _extract_sorting(chain.query.sort).sorting

ChainLimit ==
    IF chain.query.limit # None THEN chain.query.limit ELSE settings.paginate_by

Matching(st) == {r \in LiveRecords(st) : MatchAll(r, ChainFilters)}

(* C1: over a collection that does not change, the pages fetched by        *)
(* following the next-page links until a response carries none hold every  *)
(* record matching the filters exactly once, in the order of the extracted *)
(* sort sequence.                                                          *)
C1_PagesCompleteInOrder ==
    chain.on =>
        LET flat == Flatten(chain.pages) IN
        /\ \A i, j \in DOMAIN flat :
              i < j => SortsBefore(flat[i], flat[j], ChainSorting)
        /\ \A i \in DOMAIN flat : flat[i] \in Matching(store)
        /\ chain.done => \A r \in Matching(store) :
                            \E i \in DOMAIN flat : flat[i] = r

C1_Witness ==
    /\ chain.on
    /\ chain.done
    /\ ChainLimit = 1
    /\ Len(ChainSorting) = 3
    /\ Len(chain.pages) > 3
    /\ Cardinality(Matching(store)) = 3
    /\ \E i, j \in DOMAIN store : i # j /\ store[i]["a"] = store[j]["a"]

(* Some record matching the query sorts after the last record of the page  *)
MoreRemain(r) ==
    /\ Len(r.result) > 0
    /\ \E m \in Matching(store) :
          SortsBefore(r.result[Len(r.result)], m, ChainSorting)

(* C7 as stated: a list response carries a next-page link when, and only   *)
(* when, the page is full and at least one more matching record sorts      *)
(* after its last record.                                                  *)
C7_LinkIffMoreRemain ==
    chain.on /\ req[1].pc = "done" /\ req[1].status = 200 =>
        (req[1].next_page # NoLink
            <=> /\ Len(req[1].result) = ChainLimit
                /\ MoreRemain(req[1]))

-----------------------------------------------------------------------------
(* The same client while another client creates and deletes records.       *)

ChurnIds == 1..(MaxPageRecords + 1)

ChurnStores ==
    {[i \in ChurnIds |-> IF i \in PageIds THEN st[i] ELSE NoRecord] :
        st \in PageStores}

ChurnQueries ==
    {Query(f, s, l, NoToken) :
        f \in PageFilters, s \in PageSorts, l \in 1..MaxLimit}

ChurnPayloads == {Updated(d, [f \in {"u"} |-> 0]) : d \in Dicts({"a"}, Vals)}

InitChurn ==
    /\ store \in ChurnStores
    /\ ts = MaxPageRecords
    /\ settings = [delete_collection_enabled |-> TRUE, paginate_by |-> None]
    /\ req = [p \in Procs |-> IdleRequest]
    /\ chain \in {NewChain(q) : q \in ChurnQueries}
    /\ fin = <<>>
    /\ fout = <<>>

Still == UNCHANGED <<chain, fin, fout>>

NextChurn ==
    \/ FollowLink
    \/ PageAnswered
    \/ \E body \in ChurnPayloads :
          /\ ts < MaxPageRecords + MaxChurn
          /\ ~ chain.done
          /\ UnicityErrors(store, body, None) = {}
          /\ collection_post_start(2, None, body)
          /\ Still
    \/ collection_post_call(2) /\ Still
    \/ \E id \in ChurnIds :
          /\ ts < MaxPageRecords + MaxChurn
          /\ ~ chain.done
          /\ IsLive(store[id])
          /\ record_start(2, "delete", id, None, EmptyDict)
          /\ Still
    \/ delete_fetch(2) /\ Still
    \/ delete_call(2) /\ Still
    \/ \E p \in Procs : Close(p) /\ Still

SpecChurn == InitChurn /\ [][NextChurn]_vars

(* The records that exist from the first request of the chain until now *)
Lasting == Matching(chain.start) \cap Matching(store)

(* C2: while other requests insert and delete records between the page     *)
(* requests of a chain, no record is returned on more than one page, and   *)
(* every record that exists during the whole chain is returned on exactly  *)
(* one page.                                                               *)
C2_PagesUnderChurn ==
    chain.on /\ Len(chain.pages) > 0 =>
        LET flat == Flatten(chain.pages) IN
        /\ \A i, j \in DOMAIN flat :
              i # j => flat[i][id_field] # flat[j][id_field]
        /\ chain.done => \A r \in Lasting :
                            Cardinality({i \in DOMAIN flat : flat[i] = r}) = 1

C2_Witness ==
    /\ chain.on
    /\ chain.done
    /\ Len(chain.pages) >= 2
    /\ \E i \in PageIds : IsTombstone(store[i])
    /\ IsLive(store[MaxPageRecords + 1])
    /\ \E i \in DOMAIN Flatten(chain.pages) :
          Flatten(chain.pages)[i] = store[MaxPageRecords + 1]
    /\ Lasting # {}

-----------------------------------------------------------------------------
(* Two clients writing one record.  Client 1 sends conditional writes,     *)
(* client 2 unconditional ones; their storage calls interleave.  fin[p] is *)
(* the collection timestamp when request p ran its guard, fout[p] the      *)
(* collection timestamp and the record's timestamp when its storage call   *)
(* was made.                                                               *)

RaceId == 1

RaceHeaders(p) == IF p = 1 THEN {None} \cup 1..(1 + MaxChurn) ELSE {None}

RacePayloads == {Updated(d, [f \in {"a"} |-> 0]) : d \in Dicts({"u"}, Vals)}

InitRace ==
    /\ store = [i \in Ids |-> IF i = RaceId THEN LiveRecord(i, 0, 0, 1)
                              ELSE NoRecord]
    /\ ts = 1
    /\ settings = [delete_collection_enabled |-> TRUE, paginate_by |-> None]
    /\ req = [p \in Procs |-> IdleRequest]
    /\ chain = NoChain
    /\ fin = [p \in Procs |-> None]
    /\ fout = [p \in Procs |-> [at |-> None, over |-> None]]

Sent == UNCHANGED <<chain, fin, fout>>

(* The guard of request p is checked now *)
Guarded(p) ==
    /\ fin' = [fin EXCEPT ![p] = ts]
    /\ UNCHANGED <<chain, fout>>

(* The storage call of request p is made now *)
Called(p) ==
    /\ fout' = [fout EXCEPT ![p] =
                  [at |-> ts,
                   over |-> Get(db_get(store, req[p].id), modified_field)]]
    /\ UNCHANGED <<chain, fin>>

NextRace ==
    \/ \E p \in Procs :
          /\ req[p].pc = "idle"
          /\ ts < 1 + MaxChurn
          /\ \E unless \in RaceHeaders(p), body \in RacePayloads :
                record_start(p, "put", RaceId, unless, body) /\ Sent
    \/ \E p \in Procs :
          /\ req[p].pc = "idle"
          /\ ts < 1 + MaxChurn
          /\ \E unless \in RaceHeaders(p), body \in Dicts({"u"}, Vals) :
                record_start(p, "patch", RaceId, unless, body) /\ Sent
    \/ \E p \in Procs :
          /\ req[p].pc = "idle"
          /\ ts < 1 + MaxChurn
          /\ \E unless \in RaceHeaders(p) :
                record_start(p, "delete", RaceId, unless, EmptyDict) /\ Sent
    \/ \E p \in Procs : put_fetch(p) /\ Guarded(p)
    \/ \E p \in Procs : put_call(p) /\ Called(p)
    \/ \E p \in Procs : patch_fetch(p) /\ Guarded(p)
    \/ \E p \in Procs : patch_call(p) /\ Called(p)
    \/ \E p \in Procs : delete_fetch(p) /\ Guarded(p)
    \/ \E p \in Procs : delete_call(p) /\ Called(p)
    \/ \E p \in Procs : Close(p) /\ Sent

SpecRace == InitRace /\ [][NextRace]_vars

(* Request p, a conditional write of a record it found, was applied *)
AppliedConditional(p) ==
    /\ req[p].pc = "done"
    /\ req[p].op \in {"put", "patch", "delete"}
    /\ req[p].status = 200
    /\ req[p].calls = 1
    /\ req[p].unless # None
    /\ req[p].record # NoRecord

(* No write was committed between the guard and the storage call of p *)
Undisturbed(p) == fin[p] = fout[p].at

(* C18: the engine performs no compare-and-swap.  A conditional replace,   *)
(* partial-update or delete with unless-modified value H, when no other    *)
(* write falls between its guard and its storage call, is applied only if  *)
(* the record's timestamp is <= H; with another writer in between it can   *)
(* be applied over a record whose timestamp is already greater than H (the *)
(* state C18_Witness, a lost update).                                      *)
C18_NoCompareAndSwap ==
    \A p \in Procs :
        AppliedConditional(p) /\ Undisturbed(p) =>
            /\ fout[p].over = req[p].record[modified_field]
            /\ fout[p].over <= req[p].unless

C18_Witness ==
    \E p \in Procs :
        /\ AppliedConditional(p)
        /\ ~ Undisturbed(p)
        /\ req[p].op = "patch"
        /\ req[p].record[modified_field] <= req[p].unless
        /\ fout[p].over > req[p].unless
        /\ store[RaceId] = req[p].result[1]

-----------------------------------------------------------------------------
(* A sync client and a writer.  Client 1 lists the collection, then lists  *)
(* it again with _since set to the timestamp attached to the first answer; *)
(* client 2 creates, updates and deletes records at any moment.  fin is    *)
(* the first answer, fout the second, each with the store of its moment.   *)

SyncWrites == MaxChurn + 1

SyncQueries ==
    {Query(<<>>, NoSort, None, NoToken),
     Query(<<Param("", "_since", "0")>>, NoSort, None, NoToken)}

SinceQuery(t) == Query(<<Param("", "_since", Str(t))>>, NoSort, None, NoToken)

NoAnswer == [on |-> FALSE]

ListAnswer(r, st) ==
    [on |-> TRUE, attached |-> r.last_modified, built |-> r.pre.ts,
     records |-> r.result, include_deleted |-> r.include_deleted,
     store |-> st]

InitSync ==
    /\ store = [i \in Ids |-> IF i = 1 THEN LiveRecord(i, 0, 0, 1)
                              ELSE NoRecord]
    /\ ts = 1
    /\ settings = [delete_collection_enabled |-> TRUE, paginate_by |-> None]
    /\ req = [p \in Procs |-> IdleRequest]
    /\ chain = NoChain
    /\ fin = NoAnswer
    /\ fout = NoAnswer

FirstList ==
    /\ req[1].pc = "idle"
    /\ ~ fin.on
    /\ \E GET \in SyncQueries : collection_get_start(1, None, None, GET)
    /\ UNCHANGED <<chain, fin, fout>>

FirstAnswered ==
    /\ ~ fin.on
    /\ collection_get_call(1)
    /\ fin' = ListAnswer(req'[1], store)
    /\ UNCHANGED <<chain, fout>>

SecondList ==
    /\ req[1].pc = "idle"
    /\ fin.on
    /\ ~ fout.on
    /\ collection_get_start(1, None, None, SinceQuery(fin.attached))
    /\ UNCHANGED <<chain, fin, fout>>

SecondAnswered ==
    /\ fin.on
    /\ ~ fout.on
    /\ collection_get_call(1)
    /\ fout' = ListAnswer(req'[1], store)
    /\ UNCHANGED <<chain, fin>>

NextSync ==
    \/ FirstList
    \/ FirstAnswered
    \/ SecondList
    \/ SecondAnswered
    \/ /\ req[2].pc = "idle"
       /\ ts < 1 + SyncWrites
       /\ \E body \in RacePayloads :
             collection_post_start(2, None, body) /\ Sent
    \/ /\ req[2].pc = "idle"
       /\ ts < 1 + SyncWrites
       /\ \E id \in Ids, body \in Dicts({"u"}, Vals) :
             record_start(2, "patch", id, None, body) /\ Sent
    \/ /\ req[2].pc = "idle"
       /\ ts < 1 + SyncWrites
       /\ \E id \in Ids :
             record_start(2, "delete", id, None, EmptyDict) /\ Sent
    \/ collection_post_call(2) /\ Sent
    \/ patch_fetch(2) /\ Sent
    \/ patch_call(2) /\ Sent
    \/ delete_fetch(2) /\ Sent
    \/ delete_call(2) /\ Sent
    \/ \E p \in Procs : Close(p) /\ Sent

SpecSync == InitSync /\ [][NextSync]_vars

Range(seq) == {seq[i] : i \in DOMAIN seq}

(* The record or tombstone stored under i in st is the effect of a write   *)
(* the first answer does not show: it is not among the returned records,   *)
(* and, for a tombstone of a list that leaves tombstones out, the delete   *)
(* came after the list.                                                    *)
Unreflected(i, st) ==
    /\ st[i] # NoRecord
    /\ st[i] \notin Range(fin.records)
    /\ (IsTombstone(st[i]) /\ ~ fin.include_deleted) => st[i] # fin.store[i]

(* C21: the timestamp attached to a successful list is the collection      *)
(* timestamp read when the request was built, before get_all; whatever the *)
(* writer does and whenever, every write the returned records do not show  *)
(* has a modification timestamp strictly greater than the attached value,  *)
(* and a later list with _since equal to the attached value returns it.    *)
C21_SyncMissesNothing ==
    /\ fin.on =>
          /\ fin.attached = fin.built
          /\ \A i \in DOMAIN store :
                Unreflected(i, store) =>
                    store[i][modified_field] > fin.attached
    /\ fout.on =>
          \A i \in DOMAIN fout.store :
              Unreflected(i, fout.store) =>
                  fout.store[i] \in Range(fout.records)

C21_Witness ==
    /\ fout.on
    /\ \E k \in DOMAIN fin.records :
          fin.records[k][modified_field] > fin.attached
    /\ \E i \in DOMAIN fout.store :
          Unreflected(i, fout.store) /\ IsTombstone(fout.store[i])
    /\ \E i \in DOMAIN fout.store :
          Unreflected(i, fout.store) /\ IsLive(fout.store[i])

====
